---- MODULE Spec2Model ----
(***************************************************************************)
(* The prediction data-orchestration layer of verda-yield-optimizer:       *)
(* the TTL cache (PredictionCache), the batch fetcher (getAIPredictions),  *)
(* the five derived-view transformers and the shared store                 *)
(* (AIPredictionProvider), from src/src/contexts/AIPredictionContext.tsx.  *)
(*                                                                         *)
(* Scheduling is the JavaScript event loop: every action below is one      *)
(* macrotask (a mount, a timer tick, a click, the settling of one fetch)   *)
(* run to the point where the code awaits something that has not settled;  *)
(* the continuation of loadData after `await Promise.all` is a microtask,  *)
(* taken before any further macrotask.                                     *)
(***************************************************************************)
EXTENDS Integers, Sequences, FiniteSets, TLC

VARIABLES
    config,     \* the configuration surface read from import.meta.env
    now,        \* Date.now()
    cache,      \* PredictionCache.cache : Map<string, CacheEntry>
    failing,    \* the requests the remote prediction service rejects
    seed,       \* the hidden state of Math.random
    runs,       \* the invocations of loadData or of an exported function
    tasks,      \* per run and function: the state of that async call
    store,      \* the useState cells of AIPredictionProvider
    provider,   \* the mounted provider instance and its interval timer
    callCount,  \* number of getPrediction invocations so far
    probe       \* what the last direct cache operation returned (observer)

vars == <<config, now, cache, failing, seed, runs, tasks, store, provider,
          callCount, probe>>

----------------------------------------------------------------------------
(* Program constants *)

\* const batchSize = 5
batchSize == 5
\* getAIPredictions(1) in getAIAllocationData
AllocationCount == 1
\* getAIPredictions(5) in getAIKPISummary
KpiCount == 5
\* the three market presets of getAIOptimizationScenarios
PresetCount == 3
\* getAIPredictions(30) in the two forecasts: day offsets 0..29
HorizonDays == 30
\* the statusCode of an APIError raised for a failure of the transport
StatusUnreachable == 0
\* the status the service answers with while its models are not loaded
StatusNotLoaded == 503

(* Bounds of the model *)

\* The forecast horizon: the source asks getAIPredictions for 30 scenarios
\* (six batches); the model keeps more than one batch and a last partial one.
ForecastDays == 6
\* Largest count handed to getAIPredictions by a direct caller.
MaxCount == 6
\* The clock runs over 0..MaxTime.
MaxTime == 2
\* CACHE_TTL ranges over 0..MaxTTL.
MaxTTL == 2
\* Number of runs (load cycles, direct calls) in one behaviour.
MaxRuns == 2
\* Number of times the provider is mounted in one behaviour.
MaxMounts == 2
\* Values a direct caller stores in the cache.
MaxValue == 2
\* Number of form fields that differ from the values last loaded.
MaxEdited == 1
\* Number of predictions submitted from the form in one behaviour.
MaxSubmits == 2

----------------------------------------------------------------------------
(* Math.random(): a generator whose hidden state is `seed`.  A draw is a    *)
(* number of thousandths in [0, 1), at the low or at the high end; the     *)
(* k-th draw made while building one result is read off bit k of the seed, *)
(* so the four draws of a fallback result take every combination of low    *)
(* and high over the seeds.  Quantities derived from a draw are kept in    *)
(* thousandths as well.                                                    *)

DrawsPerResult == Cardinality({"biomass", "biofuel", "feed", "compost"})
Seeds == 0..(2^DrawsPerResult - 1)
Draws == {0, 999}

Random(s, k) ==
    IF (s \div (2^(k % DrawsPerResult))) % 2 = 0 THEN 0 ELSE 999

----------------------------------------------------------------------------
(* Cache keys.  A key is a pair: the name and, for `predictions_${count}`, *)
(* the count.                                                              *)

Fns == {"yield", "price", "alloc", "kpi", "scen"}

ViewKey(fn) ==
    CASE fn = "yield" -> <<"yield_forecast", 0>>
      [] fn = "price" -> <<"price_forecast", 0>>
      [] fn = "alloc" -> <<"allocation_data", 0>>
      [] fn = "kpi"   -> <<"kpi_summary", 0>>
      [] fn = "scen"  -> <<"optimization_scenarios", 0>>

PredictionsKey(count) == <<"predictions", count>>

----------------------------------------------------------------------------
(* class PredictionCache.  The map is a function whose domain is the set   *)
(* of keys present.                                                        *)

EmptyMap == [k \in {} |-> 0]

MapPut(m, key, e) == [k \in (DOMAIN m) \cup {key} |-> IF k = key THEN e ELSE m[k]]

MapDelete(m, key) == [k \in (DOMAIN m) \ {key} |-> m[k]]

\* set<T>(key, data): this.cache.set(key, {data, timestamp: Date.now()})
CacheSet(m, key, data, t) == MapPut(m, key, [data |-> data, timestamp |-> t])

\* The expiry test of get: age > CACHE_TTL
Expired(age, ttl) == age > ttl

\* get<T>(key): the map afterwards, whether a value was returned, and the value
CacheGetKeepsExpired(m, key, t, ttl) ==
    IF key \notin DOMAIN m
    THEN [cache |-> m, hit |-> FALSE, data |-> 0]
    ELSE IF Expired(t - m[key].timestamp, ttl)
         THEN [cache |-> m, hit |-> FALSE, data |-> 0]
         ELSE [cache |-> m, hit |-> TRUE, data |-> m[key].data]

CacheGet(m, key, t, ttl) ==
    IF key \notin DOMAIN m
    THEN [cache |-> m, hit |-> FALSE, data |-> 0]
    ELSE IF Expired(t - m[key].timestamp, ttl)
         THEN [cache |-> MapDelete(m, key), hit |-> FALSE, data |-> 0]
         ELSE [cache |-> m, hit |-> TRUE, data |-> m[key].data]

\* clear(): this.cache.clear()
CacheClearKeeps(m) == m

CacheClear(m) == EmptyMap

----------------------------------------------------------------------------
(* The Remote Prediction Client, getPrediction(input).  The request for    *)
(* day offset d carries createInputScenario({}, d); the service answers    *)
(* with a result for that input, or the call rejects (transport error,     *)
(* server error, model not loaded), or the service answers 200 with a body *)
(* that is no PredictionResult: apiRequest returns `data as T` unchecked.  *)
(* `failing` names the requests rejected (days, presets) and those         *)
(* answered with a malformed body (badDays, badPresets), and that body:    *)
(* JSON null, or an object without the fields of a result.                 *)

AllDays == 0..(ForecastDays - 1)
Presets == 1..PresetCount

\* what getPrediction resolves with for the scenario of day offset d
LiveResult(d) == [src |-> "live", scenario |-> <<"day", d>>]

\* what getPrediction resolves with for market preset p
PresetResult(p) == [src |-> "live", scenario |-> <<"preset", p>>]

\* what getPrediction resolves with when the body is not a PredictionResult
Bodies == {"null", "empty"}
Malformed(body) == [src |-> "malformed", body |-> body]

\* the response of the service to the request for day offset d
DayResponse(d, fails) ==
    IF d \in fails.badDays THEN Malformed(fails.body) ELSE LiveResult(d)

\* the response of the service to the request for market preset p
PresetResponse(p, fails) ==
    IF p \in fails.badPresets THEN Malformed(fails.body) ELSE PresetResult(p)

\* a promise of getPrediction that rejected
Rejection == [src |-> "rejected"]

\* the .catch handler of a request of getAIPredictions
FallbackResult(s) ==
    [src |-> "fallback",
     biomass |-> 25000 + Random(s, 0) * 10,
     prices |-> [biofuel |-> 85000 + Random(s, 1) * 20,
                 feed    |-> 50000 + Random(s, 2) * 15,
                 compost |-> 30000 + Random(s, 3) * 10],
     optimal_allocation |-> 1,
     allocation_description |-> "Balanced"]

\* getPrediction(input).catch(...) for day offset d
DayOutcomeNoCatch(d, fails, s) ==
    IF d \in fails.days THEN Rejection ELSE DayResponse(d, fails)

DayOutcome(d, fails, s) ==
    IF d \in fails.days THEN FallbackResult(s) ELSE DayResponse(d, fails)

----------------------------------------------------------------------------
(* getAIPredictions(count).  While it awaits a batch the call is           *)
(*   [st |-> "awaiting", count, i, pending, got, settled, results]         *)
(* i is the loop variable, pending the requests of the batch in flight,    *)
(* got the slots of Promise.all filled so far, settled the order in which  *)
(* the call's requests settled, results the array pushed to after each     *)
(* batch.  A call that returned is [st |-> "resolved", results, settled],  *)
(* one that threw is [st |-> "rejected"].                                  *)

Min(a, b) == IF a < b THEN a ELSE b

\* `const x = v; return F(x)`: v is computed once
Bind(v, F(_)) == CHOOSE y \in {F(x) : x \in {v}} : TRUE

\* inputScenarios.slice(i, i + batchSize), as the day offsets it holds
BatchSliceUnbounded(count, i) == i..(count - 1)

BatchSlice(count, i) == i..(Min(i + batchSize, count) - 1)

\* Promise.all: the results in the order of the batch
BatchResultsByCompletion(got, settled, count, i) ==
    [j \in 1..Cardinality(BatchSlice(count, i)) |-> got[settled[i + j]]]

BatchResults(got, settled, count, i) ==
    [j \in 1..Cardinality(BatchSlice(count, i)) |-> got[i + j - 1]]

\* the batch of the loop's iteration i goes out: one getPrediction per input
IssueBatch(count, i, results, settled) ==
    [st |-> "awaiting", count |-> count, i |-> i,
     pending |-> BatchSlice(count, i), got |-> EmptyMap, settled |-> settled,
     results |-> results]

Resolved(results, settled) ==
    [st |-> "resolved", results |-> results, settled |-> settled]

\* the call to the first await: a record [cache, callCount, call]
GetAIPredictionsStart(m, cc, count, t, ttl) ==
    LET g == CacheGet(m, PredictionsKey(count), t, ttl) IN
    IF g.hit
    THEN [cache |-> g.cache, callCount |-> cc, call |-> Resolved(g.data, <<>>)]
    ELSE IF 0 < count
         THEN [cache |-> g.cache,
               callCount |-> cc + Cardinality(BatchSlice(count, 0)),
               call |-> IssueBatch(count, 0, <<>>, <<>>)]
         ELSE [cache |-> CacheSet(g.cache, PredictionsKey(count), <<>>, t),
               callCount |-> cc,
               call |-> Resolved(<<>>, <<>>)]

\* whether every promise of the batch is fulfilled
BatchSettled(call) == call.pending = {}

\* whether a promise of the batch rejected, which rejects Promise.all
BatchRejected(call) == \E d \in DOMAIN call.got : call.got[d] = Rejection

\* the slots of Promise.all once the requests S have settled
FillSlots(got, S, fails, s) ==
    [d \in (DOMAIN got) \cup S |->
        IF d \in S THEN DayOutcome(d, fails, s) ELSE got[d]]

\* the requests S in the order they were issued
Ascending(S) ==
    [j \in 1..Cardinality(S) |->
        CHOOSE d \in S : Cardinality({e \in S : e < d}) = j - 1]

\* the requests S of the batch in flight settle; the call runs on to its
\* next await, its return or its throw: a record [cache, callCount, call]
GetAIPredictionsSettle(m, cc, call, S, fails, s, t) ==
    LET c1 == [call EXCEPT !.pending = @ \ S,
                           !.got = FillSlots(@, S, fails, s),
                           !.settled = @ \o Ascending(S)]
    IN
    IF BatchRejected(c1)
    THEN [cache |-> m, callCount |-> cc, call |-> [st |-> "rejected"]]
    ELSE IF ~BatchSettled(c1)
    THEN [cache |-> m, callCount |-> cc, call |-> c1]
    ELSE LET results == c1.results \o BatchResults(c1.got, c1.settled, c1.count, c1.i)
             i2 == c1.i + batchSize
         IN IF i2 < c1.count
            THEN [cache |-> m,
                  callCount |-> cc + Cardinality(BatchSlice(c1.count, i2)),
                  call |-> IssueBatch(c1.count, i2, results, c1.settled)]
            ELSE [cache |-> CacheSet(m, PredictionsKey(c1.count), results, t),
                  callCount |-> cc,
                  call |-> Resolved(results, c1.settled)]

----------------------------------------------------------------------------
(* The derived views.  A view records which generator built it (the static *)
(* generator of mockData, or the mapping of prediction results), the run   *)
(* that built it, and for a mapped view the results it was mapped from.    *)

\* generateYieldForecast, generatePriceForecast, getCurrentAllocation,
\* getOptimizationScenarios, getKPISummary
StaticView(fn, r) == [gen |-> "static", fn |-> fn, run |-> r]

\* predictions.map(...) and the like: the view built from results
DerivedView(fn, r, results) == [gen |-> "derived", fn |-> fn, run |-> r, from |-> results]

\* the number of scenarios a transformer asks getAIPredictions for
CountDefault(fn) == ForecastDays

Count(fn) ==
    CASE fn = "yield" -> ForecastDays
      [] fn = "price" -> ForecastDays
      [] fn = "alloc" -> AllocationCount
      [] fn = "kpi"   -> KpiCount

\* `x || y`: a null body is falsy, every other result is an object
Falsy(x) == x = Malformed("null")

\* the part of the results a transformer reads: all of them, predictions[0],
\* or `previous` and `latest` (previous = predictions[length - 2] || latest)
Used(fn, results) ==
    CASE fn = "yield" -> results
      [] fn = "price" -> results
      [] fn = "alloc" -> <<results[1]>>
      [] fn = "kpi"   -> <<IF Falsy(results[Len(results) - 1])
                           THEN results[Len(results)]
                           ELSE results[Len(results) - 1],
                           results[Len(results)]>>

\* whether reading x.biomass throws a TypeError: x is null
ThrowsOnField(x) == x = Malformed("null")

\* whether reading x.prices.biofuel throws a TypeError: x is null or
\* x.prices is undefined
ThrowsOnNested(x) == x.src = "malformed"

\* whether the mapping of a transformer throws on the results it reads:
\* yield reads prediction.biomass only, the others read prediction.prices.*
MapThrows(fn, results) ==
    LET used == Used(fn, results) IN
    CASE fn = "yield" -> \E i \in DOMAIN used : ThrowsOnField(used[i])
      [] fn = "price" -> \E i \in DOMAIN used : ThrowsOnNested(used[i])
      [] fn = "alloc" -> ThrowsOnNested(used[1])
      [] fn = "kpi"   -> ThrowsOnField(used[2]) \/ ThrowsOnNested(used[2])
                         \/ ThrowsOnNested(used[1])

\* config: live predictions are on and an endpoint is configured
Live(cfg) == cfg.USE_REAL_API /\ cfg.API_AVAILABLE

\* A task is the state of one call of a transformer (or of getAIPredictions
\* called directly): idle, awaiting, done with the value it returned, or
\* rejected.
Idle == [st |-> "idle"]
Done(v) == [st |-> "done", ret |-> v]
Rejected == [st |-> "rejected"]

\* the catch branch and the mock branch: cache.set(cacheKey, mockData)
TransformerMock(m, fn, r, t) ==
    LET view == StaticView(fn, r)
    IN [cache |-> CacheSet(m, ViewKey(fn), view, t), task |-> Done(view)]

\* the transformer after `await getAIPredictions(n)` returned results:
\* map, cache.set(cacheKey, view), return view; a TypeError thrown by the
\* mapping is caught by the catch branch
TransformerFinish(m, fn, r, results, t) ==
    IF MapThrows(fn, results)
    THEN TransformerMock(m, fn, r, t)
    ELSE LET view == DerivedView(fn, r, Used(fn, results))
         IN [cache |-> CacheSet(m, ViewKey(fn), view, t), task |-> Done(view)]

\* the first request of getAIOptimizationScenarios goes out
ScenariosIssue(step, preds) == [st |-> "awaiting", step |-> step, preds |-> preds]

\* `if (!USE_REAL_API || !API_AVAILABLE)`
UseMockNever(cfg) == FALSE

UseMock(cfg) == ~Live(cfg)

\* the transformer after `await getAIPredictions(n)` settled with call p:
\* a record [cache, callCount, task]
TransformerAfter(p, fn, r, t) ==
    CASE p.call.st = "resolved" ->
            LET f == TransformerFinish(p.cache, fn, r, p.call.results, t)
            IN [cache |-> f.cache, callCount |-> p.callCount, task |-> f.task]
      [] p.call.st = "rejected" ->
            LET f == TransformerMock(p.cache, fn, r, t)
            IN [cache |-> f.cache, callCount |-> p.callCount, task |-> f.task]
      [] OTHER -> [cache |-> p.cache, callCount |-> p.callCount, task |-> p.call]

\* a transformer that found nothing under its key, to its first pending
\* await: a record [cache, callCount, task]
TransformerMiss(m, cc, fn, r, cfg, t) ==
    IF UseMock(cfg)
    THEN LET f == TransformerMock(m, fn, r, t)
         IN [cache |-> f.cache, callCount |-> cc, task |-> f.task]
    ELSE IF fn = "scen"
         THEN [cache |-> m, callCount |-> cc + 1,
               task |-> ScenariosIssue(1, <<>>)]
         ELSE TransformerAfter(
                  GetAIPredictionsStart(m, cc, Count(fn), t, cfg.CACHE_TTL),
                  fn, r, t)

\* a transformer from its call to its first pending await:
\* a record [cache, callCount, task]
TransformerStartSkipsCache(m, cc, fn, r, cfg, t) ==
    TransformerMiss(m, cc, fn, r, cfg, t)

TransformerStart(m, cc, fn, r, cfg, t) ==
    LET g == CacheGet(m, ViewKey(fn), t, cfg.CACHE_TTL) IN
    IF g.hit
    THEN [cache |-> g.cache, callCount |-> cc, task |-> Done(g.data)]
    ELSE TransformerMiss(g.cache, cc, fn, r, cfg, t)

\* the requests S of a transformer's batch settle:
\* a record [cache, callCount, task]
TransformerSettle(m, cc, fn, r, task, S, fails, s, t) ==
    TransformerAfter(GetAIPredictionsSettle(m, cc, task, S, fails, s, t),
                     fn, r, t)

\* the request of getAIOptimizationScenarios in flight settles:
\* a record [cache, callCount, task]
ScenariosSettleSkipsFailed(m, cc, r, task, fails, t) ==
    LET failed == \/ task.step \in fails.presets
                  \/ ThrowsOnNested(PresetResponse(task.step, fails))
        preds == Append(task.preds,
                        IF failed THEN [src |-> "static"]
                        ELSE PresetResponse(task.step, fails))
    IN IF task.step < PresetCount
       THEN [cache |-> m, callCount |-> cc + 1,
             task |-> ScenariosIssue(task.step + 1, preds)]
       ELSE LET view == DerivedView("scen", r, preds)
            IN [cache |-> CacheSet(m, ViewKey("scen"), view, t),
                callCount |-> cc, task |-> Done(view)]

ScenariosSettle(m, cc, r, task, fails, t) ==
    IF \/ task.step \in fails.presets
       \/ ThrowsOnNested(PresetResponse(task.step, fails))
    THEN LET f == TransformerMock(m, "scen", r, t)
         IN [cache |-> f.cache, callCount |-> cc, task |-> f.task]
    ELSE LET preds == Append(task.preds, PresetResponse(task.step, fails))
         IN IF task.step < PresetCount
            THEN [cache |-> m, callCount |-> cc + 1,
                  task |-> ScenariosIssue(task.step + 1, preds)]
            ELSE LET view == DerivedView("scen", r, preds)
                 IN [cache |-> CacheSet(m, ViewKey("scen"), view, t),
                     callCount |-> cc, task |-> Done(view)]

\* A transformer from an await to its return, every request it still makes
\* settling in turn: a record [cache, callCount, task]
RECURSIVE TransformerRun(_, _, _, _, _, _, _, _)
TransformerRun(m, cc, fn, r, task, fails, s, t) ==
    IF task.st = "done"
    THEN [cache |-> m, callCount |-> cc, task |-> task]
    ELSE Bind(IF fn = "scen"
              THEN ScenariosSettle(m, cc, r, task, fails, t)
              ELSE TransformerSettle(m, cc, fn, r, task, task.pending,
                                     fails, s, t),
              LAMBDA n : TransformerRun(n.cache, n.callCount, fn, r, n.task,
                                        fails, s, t))

----------------------------------------------------------------------------
(* The store: the useState cells of AIPredictionProvider.                  *)

EmptyList == [gen |-> "empty"]
NullView == [gen |-> "null"]
NoError == "null"
NoDate == 0 - 1

\* the initial values of the eight useState cells
InitialStore ==
    [yieldForecast |-> EmptyList, priceForecast |-> EmptyList,
     allocationData |-> EmptyList, kpiSummary |-> NullView,
     scenarios |-> EmptyList,
     isLoading |-> TRUE, error |-> NoError, lastUpdated |-> NoDate]

\* the cell each transformer's result is stored in
ViewOf(st, fn) ==
    CASE fn = "yield" -> st.yieldForecast
      [] fn = "price" -> st.priceForecast
      [] fn = "alloc" -> st.allocationData
      [] fn = "kpi"   -> st.kpiSummary
      [] fn = "scen"  -> st.scenarios

----------------------------------------------------------------------------
(* Runs and tasks.  A run is one invocation of loadData (by the provider)  *)
(* or of an exported function (by a direct caller); runs are numbered in   *)
(* the order they start.  tasks[r][fn] is the call of fn made by run r.    *)

RunIds == 1..MaxRuns
TaskFns == Fns \cup {"preds"}
NoRun == [kind |-> "none"]
NoTasks == [fn \in TaskFns |-> Idle]

HasFreeRun == \E r \in RunIds : runs[r].kind = "none"
NextRun == CHOOSE r \in RunIds :
               /\ runs[r].kind = "none"
               /\ \A q \in RunIds : q < r => runs[q].kind # "none"

\* the requests in flight for task (r, fn)
InFlight(r, fn) ==
    LET task == tasks[r][fn] IN
    IF task.st # "awaiting" THEN 0
    ELSE IF fn = "scen" THEN 1 ELSE Cardinality(task.pending)

RECURSIVE SumOver(_, _)
SumOver(S, f) ==
    IF S = {} THEN 0
    ELSE LET x == CHOOSE y \in S : TRUE IN f[x] + SumOver(S \ {x}, f)

TotalInFlight ==
    SumOver(RunIds \X TaskFns, [p \in RunIds \X TaskFns |-> InFlight(p[1], p[2])])

\* a load cycle that has not settled
Loading(r) == runs[r].kind = "load" /\ runs[r].st = "awaiting"

\* the Promise.all of loadData: rejected as soon as one promise rejects,
\* fulfilled when all five are
AllRejected(r) == \E fn \in Fns : tasks[r][fn].st = "rejected"
AllFulfilled(r) == \A fn \in Fns : tasks[r][fn].st = "done"

\* loadData has reached `await Promise.all` and the promise is settled: its
\* continuation is the next thing the event loop runs
Resumable(r) == Loading(r) /\ (AllRejected(r) \/ AllFulfilled(r))

MicrotaskPending == \E r \in RunIds : Resumable(r)

\* loadData up to `await Promise.all([...])`: the five transformers are
\* called in the order of the array; a record [cache, callCount, tasks]
LoadDataStart(m, cc, r, cfg, t) ==
    LET Call(acc, fn) ==
            Bind(acc, LAMBDA a :
            Bind(TransformerStart(a.cache, a.callCount, fn, r, cfg, t),
                 LAMBDA x : [cache |-> x.cache, callCount |-> x.callCount,
                             tasks |-> [a.tasks EXCEPT ![fn] = x.task]]))
    IN Call(Call(Call(Call(Call(
           [cache |-> m, callCount |-> cc, tasks |-> NoTasks],
           "yield"), "price"), "alloc"), "kpi"), "scen")

\* setIsLoading(true); setError(null)
LoadingStoreClearsViews(st) == [InitialStore EXCEPT !.isLoading = TRUE]

LoadingStore(st) == [st EXCEPT !.isLoading = TRUE, !.error = NoError]

\* the try block after the await: the six setters, then finally
PublishedStoreStillLoading(st, r, t) ==
    [yieldForecast |-> tasks[r]["yield"].ret,
     priceForecast |-> tasks[r]["price"].ret,
     allocationData |-> tasks[r]["alloc"].ret,
     kpiSummary |-> tasks[r]["kpi"].ret,
     scenarios |-> tasks[r]["scen"].ret,
     isLoading |-> st.isLoading, error |-> NoError, lastUpdated |-> t]

PublishedStoreNewestWins(st, r, t) ==
    IF \E q \in RunIds : /\ q > r
                         /\ runs[q].kind = "load"
                         /\ runs[q].st = "settled"
                         /\ runs[q].mount = runs[r].mount
    THEN [st EXCEPT !.isLoading = FALSE]
    ELSE [yieldForecast |-> tasks[r]["yield"].ret,
          priceForecast |-> tasks[r]["price"].ret,
          allocationData |-> tasks[r]["alloc"].ret,
          kpiSummary |-> tasks[r]["kpi"].ret,
          scenarios |-> tasks[r]["scen"].ret,
          isLoading |-> FALSE, error |-> NoError, lastUpdated |-> t]

PublishedStoreYieldFirst(st, r, t) ==
    [st EXCEPT !.yieldForecast = tasks[r]["yield"].ret,
               !.isLoading = FALSE, !.error = NoError, !.lastUpdated = t]

PublishedStoreDateOnly(st, r, t) ==
    [st EXCEPT !.isLoading = FALSE, !.error = NoError, !.lastUpdated = t]

PublishedStore(st, r, t) ==
    [yieldForecast |-> tasks[r]["yield"].ret,
     priceForecast |-> tasks[r]["price"].ret,
     allocationData |-> tasks[r]["alloc"].ret,
     kpiSummary |-> tasks[r]["kpi"].ret,
     scenarios |-> tasks[r]["scen"].ret,
     isLoading |-> FALSE, error |-> NoError, lastUpdated |-> t]

\* the catch block: setError(errorMessage), then finally
FailedStoreClearsViews(st) ==
    [InitialStore EXCEPT
        !.error = "Failed to load AI predictions. Please try again.",
        !.isLoading = FALSE]

FailedStore(st) ==
    [st EXCEPT !.error = "Failed to load AI predictions. Please try again.",
               !.isLoading = FALSE]

----------------------------------------------------------------------------
(* Actions of the provider.                                                *)

\* The order in which the service finishes with the five transformers of one
\* load cycle: by the number of round trips each needs, the reverse of that,
\* or the order of the calls.
Latencies ==
    {<<"alloc", "kpi", "yield", "price", "scen">>,
     <<"scen", "price", "yield", "kpi", "alloc">>,
     <<"yield", "price", "alloc", "kpi", "scen">>}

Rank(order, fn) == CHOOSE i \in 1..Len(order) : order[i] = fn

\* loadData() is called by the provider instance `mount`, on cache m
BeginLoad(m, st, mount, refresh, order) ==
    \E r \in {NextRun} :
    \E s \in {LoadDataStart(m, callCount, r, config, now)} :
       /\ runs' = [runs EXCEPT ![r] = [kind |-> "load", mount |-> mount,
                                       st |-> "awaiting", refresh |-> refresh,
                                       order |-> order]]
       /\ tasks' = [tasks EXCEPT ![r] = s.tasks]
       /\ cache' = s.cache
       /\ callCount' = s.callCount
       /\ store' = LoadingStore(st)

\* The provider mounts: the cells take their initial values, the
\* initial-load effect calls loadData(), the auto-refresh effect sets the
\* interval when AUTO_REFRESH_ENABLED.
MountRefreshes ==
    /\ ~MicrotaskPending
    /\ ~provider.mounted
    /\ provider.id < MaxMounts
    /\ HasFreeRun
    /\ provider' = [mounted |-> TRUE, id |-> provider.id + 1,
                    timer |-> config.AUTO_REFRESH_ENABLED]
    /\ \E order \in Latencies :
           BeginLoad(CacheClear(cache), InitialStore, provider.id + 1, TRUE,
                     order)
    /\ UNCHANGED <<config, now, failing, seed, probe>>

Mount ==
    /\ ~MicrotaskPending
    /\ ~provider.mounted
    /\ provider.id < MaxMounts
    /\ HasFreeRun
    /\ provider' = [mounted |-> TRUE, id |-> provider.id + 1,
                    timer |-> config.AUTO_REFRESH_ENABLED]
    /\ \E order \in Latencies :
           BeginLoad(cache, InitialStore, provider.id + 1, FALSE, order)
    /\ UNCHANGED <<config, now, failing, seed, probe>>

\* The provider unmounts: the effect's cleanup clears the interval.
UnmountKeepsTimer ==
    /\ ~MicrotaskPending
    /\ provider.mounted
    /\ provider' = [provider EXCEPT !.mounted = FALSE]
    /\ UNCHANGED <<config, now, cache, failing, seed, runs, tasks, store,
                   callCount, probe>>

Unmount ==
    /\ ~MicrotaskPending
    /\ provider.mounted
    /\ provider' = [provider EXCEPT !.mounted = FALSE, !.timer = FALSE]
    /\ UNCHANGED <<config, now, cache, failing, seed, runs, tasks, store,
                   callCount, probe>>

\* refreshData(): clearCache(); await loadData()
RefreshData ==
    \E order \in Latencies :
        BeginLoad(CacheClear(cache), store, provider.id, TRUE, order)

\* The interval fires.
TimerRefresh ==
    /\ ~MicrotaskPending
    /\ provider.mounted
    /\ provider.timer
    /\ HasFreeRun
    /\ RefreshData
    /\ UNCHANGED <<config, now, failing, seed, provider, probe>>

\* The RefreshButton (disabled while isLoading) or the ErrorState's retry
\* button (rendered while error is set) is clicked.
ClickRefresh ==
    /\ ~MicrotaskPending
    /\ provider.mounted
    /\ (~store.isLoading \/ store.error # NoError)
    /\ HasFreeRun
    /\ RefreshData
    /\ UNCHANGED <<config, now, failing, seed, provider, probe>>

\* The continuation of loadData after `await Promise.all`: the try block's
\* setters or the catch block's, then finally.  The setters of an instance
\* that is no longer mounted change nothing.
LoadDataResume(r) ==
    /\ Resumable(r)
    /\ runs' = [runs EXCEPT ![r] = [kind |-> "load", mount |-> runs[r].mount,
                                    st |-> "settled", refresh |-> runs[r].refresh]]
    /\ tasks' = [tasks EXCEPT ![r] = NoTasks]
    /\ store' = IF provider.mounted /\ provider.id = runs[r].mount
                THEN IF AllRejected(r)
                     THEN FailedStore(store)
                     ELSE PublishedStore(store, r, now)
                ELSE store
    /\ UNCHANGED <<config, now, cache, failing, seed, provider,
                   callCount, probe>>

----------------------------------------------------------------------------
(* Actions of the environment: the network and the clock.                  *)

\* what a direct caller of getAIPredictions holds once the call settled
PredsTask(call) ==
    CASE call.st = "resolved" ->
            [st |-> "done", ret |-> call.results, settled |-> call.settled]
      [] call.st = "rejected" -> Rejected
      [] OTHER -> call

\* The requests S in flight for getAIPredictions in task (r, fn) settle.
PredictionsSettle(r, fn, S) ==
    /\ ~MicrotaskPending
    /\ fn # "scen"
    /\ tasks[r][fn].st = "awaiting"
    /\ S # {}
    /\ S \subseteq tasks[r][fn].pending
    /\ \E s \in {IF fn = "preds"
                   THEN Bind(GetAIPredictionsSettle(cache, callCount, tasks[r][fn],
                                                    S, failing, seed, now),
                             LAMBDA p : [cache |-> p.cache,
                                         callCount |-> p.callCount,
                                         task |-> PredsTask(p.call)])
                   ELSE TransformerSettle(cache, callCount, fn, r, tasks[r][fn],
                                          S, failing, seed, now)} :
          /\ tasks' = [tasks EXCEPT ![r][fn] = s.task]
          /\ cache' = s.cache
          /\ callCount' = s.callCount
    /\ UNCHANGED <<config, now, failing, seed, runs, store, provider, probe>>

\* The responses transformer fn of run r is waiting for arrive, the last of
\* them now.  (The earlier ones change nothing but the call's own state.)
\* Within a run the transformers are served in the run's order.
ResponsesArrive(r, fn) ==
    /\ ~MicrotaskPending
    /\ tasks[r][fn].st = "awaiting"
    /\ \A g \in Fns : tasks[r][g].st = "awaiting"
                        => Rank(runs[r].order, fn) <= Rank(runs[r].order, g)
    /\ \E s \in {TransformerRun(cache, callCount, fn, r, tasks[r][fn],
                                  failing, seed, now)} :
          /\ tasks' = [tasks EXCEPT ![r][fn] = s.task]
          /\ cache' = s.cache
          /\ callCount' = s.callCount
    /\ UNCHANGED <<config, now, failing, seed, runs, store, provider, probe>>

\* Time passes.  The clock's unit is that of the TTL (minutes); the requests
\* of a load cycle settle within one unit.
Tick ==
    /\ ~MicrotaskPending
    /\ \A r \in RunIds : ~Loading(r)
    /\ now < MaxTime
    /\ now' = now + 1
    /\ UNCHANGED <<config, cache, failing, seed, runs, tasks, store, provider,
                   callCount, probe>>

----------------------------------------------------------------------------
(* The provider in its environment.                                        *)

Configs ==
    [USE_REAL_API : BOOLEAN, API_AVAILABLE : BOOLEAN,
     AUTO_REFRESH_ENABLED : BOOLEAN, CACHE_TTL : 0..MaxTTL]

NoKey == <<"none", 0>>
NoProbe ==
    [op |-> "none", key |-> NoKey, had |-> FALSE, hit |-> FALSE,
     data |-> 0, stored |-> 0, age |-> 0, seen |-> {}]

NoFailures ==
    [days |-> {}, presets |-> {}, badDays |-> {}, badPresets |-> {},
     body |-> "null"]
AllFailing ==
    [NoFailures EXCEPT !.days = 0..(ForecastDays + MaxCount),
                       !.presets = Presets]

\* The service rejects nothing, everything, or one day and one preset.
StoreFailures ==
    {NoFailures, AllFailing, [NoFailures EXCEPT !.days = {1}, !.presets = {2}]}

\* The service answers some requests with a malformed body: the first day,
\* the last two days a forecast asks for, or every request.
MalformedFailures ==
    {[NoFailures EXCEPT !.badDays = D, !.badPresets = P, !.body = b] :
        D \in {{0}, {KpiCount - 2}, 0..(ForecastDays - 1)},
        P \in {{}, {PresetCount}}, b \in Bodies}


\* the state of the module and of the page before anything ran
Start(cfgs, failures, seeds) ==
    /\ config \in cfgs
    /\ now = 0
    /\ cache = EmptyMap
    /\ failing \in failures
    /\ seed \in seeds
    /\ runs = [r \in RunIds |-> NoRun]
    /\ tasks = [r \in RunIds |-> NoTasks]
    /\ store = InitialStore
    /\ provider = [mounted |-> FALSE, id |-> 0, timer |-> FALSE]
    /\ callCount = 0
    /\ probe = NoProbe

Init == Start({c \in Configs : c.CACHE_TTL = 1}, StoreFailures, {0})

Next ==
    \/ Mount
    \/ Unmount
    \/ TimerRefresh
    \/ ClickRefresh
    \/ \E r \in RunIds : LoadDataResume(r)
    \/ \E r \in RunIds, fn \in Fns : ResponsesArrive(r, fn)
    \/ Tick

Spec == Init /\ [][Next]_vars

\* The same, for a live configuration with auto-refresh, the network
\* answering every request and the event loop running every continuation.
InitFair ==
    Start({c \in Configs : Live(c) /\ c.AUTO_REFRESH_ENABLED /\ c.CACHE_TTL = 1},
          StoreFailures, {0})

\* the clock plays no part in whether a cycle settles
NextFair ==
    \/ Mount
    \/ Unmount
    \/ TimerRefresh
    \/ ClickRefresh
    \/ \E r \in RunIds : LoadDataResume(r)
    \/ \E r \in RunIds, fn \in Fns : ResponsesArrive(r, fn)

\* The event loop runs every continuation, and no request is left
\* unanswered for ever.
SpecFair ==
    /\ InitFair
    /\ [][NextFair]_vars
    /\ WF_vars(\E r \in RunIds : LoadDataResume(r))
    /\ \A r \in RunIds, fn \in Fns : []<>(tasks[r][fn].st # "awaiting")

----------------------------------------------------------------------------
(* The cache used directly: set, get and clear under a clock that the      *)
(* system may set forwards or backwards (Date.now() is the wall clock).    *)
(* probe records what the last operation saw and returned, and the keys    *)
(* whose entry a get found expired since they were last set.               *)

DirectKeys == {ViewKey("yield"), ViewKey("kpi")}
Values == 1..MaxValue

CacheSetOp(key, v) ==
    /\ cache' = CacheSet(cache, key, v, now)
    /\ probe' = [NoProbe EXCEPT !.op = "set", !.key = key,
                                !.seen = probe.seen \ {key}]
    /\ UNCHANGED <<config, now, failing, seed, runs, tasks, store, provider,
                   callCount>>

CacheGetOp(key) ==
    /\ LET had == key \in DOMAIN cache
           g == CacheGet(cache, key, now, config.CACHE_TTL)
       IN /\ cache' = g.cache
          /\ probe' = [op |-> "get", key |-> key, had |-> had, hit |-> g.hit,
                       data |-> g.data,
                       stored |-> IF had THEN cache[key].data ELSE 0,
                       age |-> IF had THEN now - cache[key].timestamp ELSE 0,
                       seen |-> IF had /\ ~g.hit THEN probe.seen \cup {key}
                                ELSE probe.seen]
    /\ UNCHANGED <<config, now, failing, seed, runs, tasks, store, provider,
                   callCount>>

CacheClearOp ==
    /\ cache' = CacheClear(cache)
    /\ probe' = [NoProbe EXCEPT !.op = "clear", !.seen = probe.seen]
    /\ UNCHANGED <<config, now, failing, seed, runs, tasks, store, provider,
                   callCount>>

ClockMoves ==
    /\ \E t \in 0..MaxTime : t # now /\ now' = t
    /\ UNCHANGED <<config, cache, failing, seed, runs, tasks, store, provider,
                   callCount, probe>>

InitCache ==
    Start({c \in Configs : ~c.USE_REAL_API /\ ~c.API_AVAILABLE
                           /\ ~c.AUTO_REFRESH_ENABLED},
          {NoFailures}, {0})

NextCache ==
    \/ \E key \in DirectKeys, v \in Values : CacheSetOp(key, v)
    \/ \E key \in DirectKeys : CacheGetOp(key)
    \/ CacheClearOp
    \/ ClockMoves

SpecCache == InitCache /\ [][NextCache]_vars

----------------------------------------------------------------------------
(* getAIPredictions called directly, each request settling on its own.     *)
(* The service rejects the requests for the offsets in failing.days; the   *)
(* calls of one behaviour ask for the same count, one after the other.     *)

Counts == 0..MaxCount

CallGetAIPredictions(count) ==
    /\ HasFreeRun
    /\ failing.days \subseteq 0..(count - 1)
    /\ \A q \in RunIds : tasks[q]["preds"].st # "awaiting"
    /\ \A q \in RunIds : runs[q].kind = "call" => runs[q].count = count
    /\ \E r \in {NextRun} :
       \E p \in {GetAIPredictionsStart(cache, callCount, count, now,
                                       config.CACHE_TTL)} :
          /\ runs' = [runs EXCEPT ![r] = [kind |-> "call", fn |-> "preds",
                                          count |-> count]]
          /\ tasks' = [tasks EXCEPT ![r]["preds"] = PredsTask(p.call)]
          /\ cache' = p.cache
          /\ callCount' = p.callCount
    /\ UNCHANGED <<config, now, failing, seed, store, provider, probe>>

InitBatch ==
    Start({c \in Configs : Live(c) /\ ~c.AUTO_REFRESH_ENABLED /\ c.CACHE_TTL = 1},
          {[NoFailures EXCEPT !.days = S] : S \in SUBSET (0..(MaxCount - 1))},
          {0, 2^DrawsPerResult - 1})

NextBatch ==
    \/ \E count \in Counts : CallGetAIPredictions(count)
    \/ \E r \in RunIds, d \in 0..(MaxCount - 1) : PredictionsSettle(r, "preds", {d})

SpecBatch == InitBatch /\ [][NextBatch]_vars

----------------------------------------------------------------------------
(* The exported transformers and clearCache called directly.               *)

CallTransformer(fn) ==
    /\ ~MicrotaskPending
    /\ HasFreeRun
    /\ \E r \in {NextRun} :
       \E s \in {TransformerStart(cache, callCount, fn, r, config, now)} :
          /\ runs' = [runs EXCEPT ![r] = [kind |-> "call", fn |-> fn,
                                          order |-> <<fn>>]]
          /\ tasks' = [tasks EXCEPT ![r][fn] = s.task]
          /\ cache' = s.cache
          /\ callCount' = s.callCount
    /\ UNCHANGED <<config, now, failing, seed, store, provider, probe>>

\* clearCache(): cache.clear()
ClearCache ==
    /\ cache' = CacheClear(cache)
    /\ UNCHANGED <<config, now, failing, seed, runs, tasks, store, provider,
                   callCount, probe>>

InitService ==
    Start({c \in Configs : ~c.AUTO_REFRESH_ENABLED /\ c.CACHE_TTL = 1},
          StoreFailures, {0})

NextService ==
    \/ \E fn \in Fns : CallTransformer(fn)
    \/ ClearCache
    \/ \E r \in RunIds, fn \in Fns : ResponsesArrive(r, fn)
    \/ Tick

SpecService == InitService /\ [][NextService]_vars

\* The same with live predictions, against a service that also answers with
\* malformed bodies.
InitResponses ==
    Start({c \in Configs : Live(c) /\ ~c.AUTO_REFRESH_ENABLED /\ c.CACHE_TTL = 1},
          StoreFailures \cup MalformedFailures, {0})

SpecResponses == InitResponses /\ [][NextService]_vars

----------------------------------------------------------------------------
(* createInputScenario(baseInput, dayOffset) and validationRules.  Numbers *)
(* are kept in thousandths: 0.85 is 850, 120 is 120000.                    *)

Fields ==
    {"ffb", "cpo", "moisture", "cv", "eff", "oil_price", "demand_bio",
     "carbon_tax", "demand_feed", "protein_score", "supply_factor",
     "compost_base", "nutrient_score"}

\* validationRules: min and max of every field
validationRules ==
    [ffb            |-> [min |-> 80000, max |-> 150000],
     cpo            |-> [min |-> 14000, max |-> 36000],
     moisture       |-> [min |-> 35000, max |-> 45000],
     cv             |-> [min |-> 16000, max |-> 19000],
     eff            |-> [min |-> 750,   max |-> 950],
     oil_price      |-> [min |-> 70000, max |-> 130000],
     demand_bio     |-> [min |-> 400,   max |-> 1000],
     carbon_tax     |-> [min |-> 8000,  max |-> 15000],
     demand_feed    |-> [min |-> 400,   max |-> 1000],
     protein_score  |-> [min |-> 700,   max |-> 1200],
     supply_factor  |-> [min |-> 800,   max |-> 1300],
     compost_base   |-> [min |-> 20000, max |-> 50000],
     nutrient_score |-> [min |-> 700,   max |-> 1300]]

\* `const base: PredictionInput = {...}` before the spread of baseInput
BaseScenario ==
    [ffb |-> 120000, cpo |-> 25000, moisture |-> 40000, cv |-> 17000,
     eff |-> 850, oil_price |-> 95000, demand_bio |-> 700,
     carbon_tax |-> 12000, demand_feed |-> 550, protein_score |-> 900,
     supply_factor |-> 1100, compost_base |-> 30000, nutrient_score |-> 1000]

\* the overrides the program passes: {} in getAIPredictions, and maxRevInput,
\* balancedInput, sustainInput in getAIOptimizationScenarios
NoOverride == [f \in {} |-> 0]
PresetInput(p) ==
    CASE p = 1 -> [oil_price |-> 110000, demand_bio |-> 850, carbon_tax |-> 8000]
      [] p = 2 -> [oil_price |-> 95000,  demand_bio |-> 700, carbon_tax |-> 12000]
      [] p = 3 -> [oil_price |-> 85000,  demand_bio |-> 550, carbon_tax |-> 18000]

\* Math.sin((dayOffset / 30) * Math.PI) in thousandths, for offsets 0..30
SineTable ==
    <<0, 105, 208, 309, 407, 500, 588, 669, 743, 809, 866, 914, 951, 978,
      995, 1000>>
Sine(dayOffset) == SineTable[Min(dayOffset, HorizonDays - dayOffset) + 1]

\* Math.round(x / unit) * unit for x >= 0
RoundTo(x, unit) == ((2 * x + unit) \div (2 * unit)) * unit

Max(a, b) == IF a > b THEN a ELSE b

\* createInputScenario(baseInput, dayOffset); the four calls of Math.random
\* are the draws 0..3 of seed s
CreateInputScenario(baseInput, dayOffset, s) ==
    LET base == [f \in Fields |-> IF f \in DOMAIN baseInput
                                  THEN baseInput[f] ELSE BaseScenario[f]]
        seasonalFactor == 1000 + (150 * Sine(dayOffset)) \div 1000
        randomFactor == 950 + Random(s, 0) \div 10
    IN [base EXCEPT
          !.ffb = RoundTo((((base.ffb * seasonalFactor) \div 1000)
                               * randomFactor) \div 1000, 100),
          !.oil_price = RoundTo(base.oil_price + (Random(s, 1) - 500) * 15, 10),
          !.demand_bio =
              Max(500, Min(900, base.demand_bio + (Random(s, 2) - 500) \div 5)),
          !.demand_feed =
              Max(400, Min(800, base.demand_feed + (Random(s, 3) - 500) \div 5))]

\* the calls of createInputScenario the program makes: line 259 with the
\* offsets of a forecast, lines 492, 514 and 536 with offset 0
ProgramCalls ==
    {<<NoOverride, d>> : d \in 0..(HorizonDays - 1)}
        \cup {<<PresetInput(p), 0>> : p \in Presets}

CallCreateInputScenario(baseInput, dayOffset) ==
    /\ probe' = [op |-> "createInputScenario", base |-> baseInput,
                 dayOffset |-> dayOffset,
                 out |-> CreateInputScenario(baseInput, dayOffset, seed)]
    /\ UNCHANGED <<config, now, cache, failing, seed, runs, tasks, store,
                   provider, callCount>>

InitScenario ==
    Start({c \in Configs : Live(c) /\ ~c.AUTO_REFRESH_ENABLED /\ c.CACHE_TTL = 1},
          {NoFailures}, Seeds)

NextScenario ==
    \E call \in ProgramCalls : CallCreateInputScenario(call[1], call[2])

SpecScenario == InitScenario /\ [][NextScenario]_vars

----------------------------------------------------------------------------
(* PredictionInputForm: the form's state (formData, errors), its handlers  *)
(* and validateForm.  probe holds the form: the values last loaded (base), *)
(* formData, the fields of errors, and whether the last handleSubmit       *)
(* called onSubmit.  onSubmit is the hook's predict, which issues the      *)
(* request.  FormField hands on only numbers (it drops NaN).               *)

defaultValues ==
    [ffb |-> 120000, cpo |-> 25000, moisture |-> 40000, cv |-> 17000,
     eff |-> 850, oil_price |-> 95000, demand_bio |-> 700,
     carbon_tax |-> 12000, demand_feed |-> 550, protein_score |-> 900,
     supply_factor |-> 1100, compost_base |-> 30000, nutrient_score |-> 1000]

PresetKeys == {"high-production", "eco-friendly", "revenue-max"}

presets ==
    [k \in PresetKeys |->
        CASE k = "high-production" ->
                [ffb |-> 145000, cpo |-> 32000, moisture |-> 38000, cv |-> 18000,
                 eff |-> 920, oil_price |-> 100000, demand_bio |-> 750,
                 carbon_tax |-> 10000, demand_feed |-> 650,
                 protein_score |-> 1000, supply_factor |-> 1000,
                 compost_base |-> 35000, nutrient_score |-> 1100]
          [] k = "eco-friendly" ->
                [ffb |-> 110000, cpo |-> 24000, moisture |-> 40000, cv |-> 17500,
                 eff |-> 880, oil_price |-> 90000, demand_bio |-> 850,
                 carbon_tax |-> 15000, demand_feed |-> 500,
                 protein_score |-> 850, supply_factor |-> 1050,
                 compost_base |-> 40000, nutrient_score |-> 1200]
          [] k = "revenue-max" ->
                [ffb |-> 135000, cpo |-> 30000, moisture |-> 39000, cv |-> 18500,
                 eff |-> 900, oil_price |-> 120000, demand_bio |-> 900,
                 carbon_tax |-> 11000, demand_feed |-> 700,
                 protein_score |-> 1150, supply_factor |-> 900,
                 compost_base |-> 45000, nutrient_score |-> 1250]]

\* validateField(field, value): whether it returns a message
validateFieldMaxOnly(field, value) ==
    value > validationRules[field].max

validateField(field, value) ==
    \/ value < validationRules[field].min
    \/ value > validationRules[field].max

\* validateForm(data): the keys of the errors it returns
validateForm(data) == {f \in Fields : validateField(f, data[f])}

\* the values last loaded into the form
BaseValues(base) == IF base = "default" THEN defaultValues ELSE presets[base]

\* what the user types into a field: the ends of its range and the values
\* one step (0.01) outside
Typed(f) ==
    {validationRules[f].min - 10, validationRules[f].min,
     validationRules[f].max, validationRules[f].max + 10}

Edited(base, data) == {f \in Fields : data[f] # BaseValues(base)[f]}

NewForm ==
    [op |-> "form", base |-> "default", formData |-> defaultValues,
     errors |-> {}, called |-> FALSE]

\* handleChange(field, value)
HandleChange(field, value) ==
    /\ Cardinality(Edited(probe.base, [probe.formData EXCEPT ![field] = value]))
          <= MaxEdited
    /\ probe' = [probe EXCEPT !.op = "change",
                               !.formData[field] = value,
                               !.errors = @ \ {field},
                               !.called = FALSE]
    /\ UNCHANGED <<config, now, cache, failing, seed, runs, tasks, store,
                   provider, callCount>>

\* loadPreset(presetKey)
LoadPreset(key) ==
    /\ probe' = [op |-> "preset", base |-> key, formData |-> presets[key],
                 errors |-> {}, called |-> FALSE]
    /\ UNCHANGED <<config, now, cache, failing, seed, runs, tasks, store,
                   provider, callCount>>

\* resetToDefaults()
ResetToDefaults ==
    /\ probe' = [NewForm EXCEPT !.op = "reset"]
    /\ UNCHANGED <<config, now, cache, failing, seed, runs, tasks, store,
                   provider, callCount>>

\* handleSubmit(), the onClick of a button that is disabled while errors is
\* not empty: validate(), and onSubmit(formData) if it returned true
HandleSubmit ==
    /\ probe.errors = {}
    /\ callCount < MaxSubmits
    /\ \E newErrors \in {validateForm(probe.formData)} :
          /\ probe' = [probe EXCEPT !.op = "submit",
                                     !.errors = newErrors,
                                     !.called = (newErrors = {})]
          /\ callCount' = IF newErrors = {} THEN callCount + 1 ELSE callCount
    /\ UNCHANGED <<config, now, cache, failing, seed, runs, tasks, store,
                   provider>>

InitForm ==
    /\ config \in {c \in Configs : Live(c) /\ ~c.AUTO_REFRESH_ENABLED
                                    /\ c.CACHE_TTL = 1}
    /\ now = 0
    /\ cache = EmptyMap
    /\ failing = NoFailures
    /\ seed = 0
    /\ runs = [r \in RunIds |-> NoRun]
    /\ tasks = [r \in RunIds |-> NoTasks]
    /\ store = InitialStore
    /\ provider = [mounted |-> FALSE, id |-> 0, timer |-> FALSE]
    /\ callCount = 0
    /\ probe = NewForm

NextForm ==
    \/ \E f \in Fields : \E v \in Typed(f) : HandleChange(f, v)
    \/ \E key \in PresetKeys : LoadPreset(key)
    \/ ResetToDefaults
    \/ HandleSubmit

SpecForm == InitForm /\ [][NextForm]_vars

----------------------------------------------------------------------------
(* loadData with a transformer whose promise rejects.  The transformers of *)
(* this module catch what their try block throws, so a rejection reaches   *)
(* loadData only if a catch branch itself throws (the static generator or  *)
(* cache.set), or if loadData is run against other transformers; the       *)
(* rejecting transformer is the last of its cycle to settle.               *)

TransformerRejects(r, fn) ==
    /\ ~MicrotaskPending
    /\ Loading(r)
    /\ tasks[r][fn].st = "awaiting"
    /\ \A g \in Fns \ {fn} : tasks[r][g].st = "done"
    /\ tasks' = [tasks EXCEPT ![r][fn] = Rejected]
    /\ UNCHANGED <<config, now, cache, failing, seed, runs, store, provider,
                   callCount, probe>>

InitReject ==
    Start({c \in Configs : Live(c) /\ c.CACHE_TTL = 1}, {NoFailures}, {0})

NextReject ==
    \/ Mount
    \/ Unmount
    \/ TimerRefresh
    \/ ClickRefresh
    \/ \E r \in RunIds : LoadDataResume(r)
    \/ \E r \in RunIds, fn \in Fns : ResponsesArrive(r, fn)
    \/ \E r \in RunIds, fn \in Fns : TransformerRejects(r, fn)
    \/ Tick

SpecReject == InitReject /\ [][NextReject]_vars

\* The provider and the direct callers when live predictions are off or no
\* endpoint is configured.  No transformer then reaches an await, so no
\* response is ever awaited.
InitMock ==
    Start({c \in Configs : ~Live(c) /\ c.CACHE_TTL = 1}, StoreFailures, {0})

NextMock ==
    \/ Mount
    \/ Unmount
    \/ TimerRefresh
    \/ ClickRefresh
    \/ \E r \in RunIds : LoadDataResume(r)
    \/ \E fn \in Fns : CallTransformer(fn)
    \/ ClearCache
    \/ Tick

SpecMock == InitMock /\ [][NextMock]_vars


----------------------------------------------------------------------------
(* The static generators of mockData, and what a view holds.  A number is  *)
(* kept in thousandths where the source computes a fraction.               *)

\* getCurrentAllocation(): category and value of every entry
getCurrentAllocation ==
    <<[category |-> "Biofuel",        value |-> 35],
      [category |-> "Animal Feed",    value |-> 28],
      [category |-> "Compost",        value |-> 22],
      [category |-> "Carbon Credits", value |-> 15]>>

\* generateYieldForecast(): for (let i = 0; i < 30; i++) data.push({...});
\* the call of Math.random of iteration i is draw i of seed s
generateYieldForecast(s) ==
    [j \in 1..HorizonDays |->
        LET i == j - 1
            seasonalFactor == 1000 + (200 * Sine(i)) \div 1000
            randomFactor == 900 + Random(s, i) \div 5
        IN [day   |-> i,
            efb   |-> RoundTo((180 * seasonalFactor * randomFactor) \div 1000, 1000),
            pome  |-> RoundTo((450 * seasonalFactor * randomFactor) \div 1000, 1000),
            fiber |-> RoundTo((120 * seasonalFactor * randomFactor) \div 1000, 1000),
            shell |-> RoundTo((60 * seasonalFactor * randomFactor) \div 1000, 1000)]]

\* generatePriceForecast(): a random walk of 30 steps, clamped and rounded;
\* the four calls of Math.random of an iteration are the draws 0..3 of s
generatePriceForecast(s) ==
    [j \in 1..HorizonDays |->
        [day        |-> j - 1,
         biofuel    |-> RoundTo(Max(700000, Min(1000000,
                            850000 + j * (Random(s, 0) - 480) * 20)), 1000),
         animalFeed |-> RoundTo(Max(250000, Min(400000,
                            320000 + j * (Random(s, 1) - 480) * 8)), 1000),
         compost    |-> RoundTo(Max(100000, Min(200000,
                            150000 + j * (Random(s, 2) - 480) * 5)), 1000),
         carbonCredit |-> RoundTo(Max(30000, Min(70000,
                            45000 + j * (Random(s, 3) - 450) * 2)), 100)]]

\* getOptimizationScenarios(): the name of every scenario and the values of
\* its allocation
getOptimizationScenarios ==
    <<[name |-> "Max Revenue",   allocation |-> <<55, 25, 12, 8>>],
      [name |-> "Min Emissions", allocation |-> <<20, 15, 35, 30>>],
      [name |-> "Balanced",      allocation |-> <<35, 28, 22, 15>>]>>

\* getKPISummary()
getKPISummary ==
    [totalYield |-> 820, totalRevenue |-> 82250, emissionsReduced |-> 2100,
     efficiency |-> 88]

\* what the static generator of transformer fn returns
StaticData(fn, s) ==
    CASE fn = "yield" -> generateYieldForecast(s)
      [] fn = "price" -> generatePriceForecast(s)
      [] fn = "alloc" -> getCurrentAllocation
      [] fn = "scen"  -> getOptimizationScenarios
      [] fn = "kpi"   -> getKPISummary

RECURSIVE SumValues(_)
SumValues(list) ==
    IF list = <<>> THEN 0 ELSE list[1].value + SumValues(Tail(list))


----------------------------------------------------------------------------
(* apiRequest and getPrediction against one fetch, and the hook            *)
(* useVerdaPrediction that the form submits to.  probe holds the hook's    *)
(* cells (isLoading, error, result), what fetch did for the request in     *)
(* flight (outcome), and what getPrediction settled with (settled).        *)

\* what fetch can do: reject (the endpoint is unreachable), or resolve with
\* a response of some status whose body is a PredictionResult, JSON null, an
\* object without the fields of a result, an object with `detail`, or no JSON
Statuses == {200, 400, 422, 500, StatusNotLoaded}
ResponseBodies == {"result", "null", "empty", "detail", "notJson"}
FetchOutcomes ==
    {[kind |-> "networkError"]}
        \cup [kind : {"response"}, status : Statuses, body : ResponseBodies]

\* response.ok
Ok(status) == 200 <= status /\ status <= 299

\* throw new APIError(message, statusCode)
APIError(message, statusCode) ==
    [st |-> "rejected", name |-> "APIError", message |-> message,
     statusCode |-> statusCode]

\* `return data as T`
Returned(data) == [st |-> "resolved", data |-> data]

\* response.json() of a body, where it does not throw
Parsed(body) ==
    CASE body = "result" -> LiveResult(0)
      [] body = "null"   -> Malformed("null")
      [] OTHER           -> Malformed("empty")

\* apiRequest<T>(endpoint, options): what the promise settles with
ApiRequestIgnoresStatus(o) ==
    IF o.kind = "networkError"
    THEN APIError("Cannot connect to AI backend", StatusUnreachable)
    ELSE IF o.body = "notJson"
         THEN APIError("Network error", StatusUnreachable)
         ELSE Returned(Parsed(o.body))

ApiRequest(o) ==
    IF o.kind = "networkError"
    THEN APIError("Cannot connect to AI backend", StatusUnreachable)
    ELSE IF ~Ok(o.status)
         THEN APIError(IF o.body = "detail" THEN "detail" ELSE "statusText",
                       o.status)
         ELSE IF o.body = "notJson"
              THEN APIError("Network error", StatusUnreachable)
              ELSE Returned(Parsed(o.body))

\* getPrediction(input): apiRequest('/predict', POST)
GetPrediction(o) == ApiRequest(o)

NoResult == [src |-> "none"]
NoOutcome == [kind |-> "none"]
NewHook ==
    [op |-> "hook", isLoading |-> FALSE, error |-> NoError, result |-> NoResult,
     outcome |-> NoOutcome, settled |-> [st |-> "none"], threw |-> FALSE]

\* the catch block of predict: the message for the error thrown
ErrorMessage(e) ==
    IF e.statusCode = StatusNotLoaded THEN "AI models are not loaded"
    ELSE IF e.statusCode = StatusUnreachable THEN "Cannot connect to API server"
    ELSE e.message

\* predict(input) up to `await getPrediction(input)`
PredictStart ==
    /\ ~probe.isLoading
    /\ callCount < MaxSubmits
    /\ \E o \in FetchOutcomes :
          probe' = [probe EXCEPT !.op = "predict", !.isLoading = TRUE,
                                 !.error = NoError, !.outcome = o,
                                 !.settled = [st |-> "none"], !.threw = FALSE]
    /\ callCount' = callCount + 1
    /\ UNCHANGED <<config, now, cache, failing, seed, runs, tasks, store,
                   provider>>

\* predict(input) after the await: setResult and the toast, or the catch
\* block, then finally.  Reading allocation_description of null throws.
PredictSettle ==
    /\ probe.isLoading
    /\ \E p \in {GetPrediction(probe.outcome)} :
          probe' =
             IF p.st = "resolved"
             THEN [probe EXCEPT !.op = "settle", !.isLoading = FALSE,
                                !.result = p.data, !.settled = p,
                                !.error = IF ThrowsOnField(p.data)
                                          THEN "TypeError" ELSE NoError,
                                !.threw = ThrowsOnField(p.data)]
             ELSE [probe EXCEPT !.op = "settle", !.isLoading = FALSE,
                                !.settled = p, !.error = ErrorMessage(p),
                                !.threw = TRUE]
    /\ UNCHANGED <<config, now, cache, failing, seed, runs, tasks, store,
                   provider, callCount>>

\* reset()
HookReset ==
    /\ probe' = [probe EXCEPT !.op = "reset", !.result = NoResult,
                               !.error = NoError]
    /\ UNCHANGED <<config, now, cache, failing, seed, runs, tasks, store,
                   provider, callCount>>

InitClient ==
    /\ config \in {c \in Configs : Live(c) /\ ~c.AUTO_REFRESH_ENABLED
                                    /\ c.CACHE_TTL = 1}
    /\ now = 0
    /\ cache = EmptyMap
    /\ failing = NoFailures
    /\ seed = 0
    /\ runs = [r \in RunIds |-> NoRun]
    /\ tasks = [r \in RunIds |-> NoTasks]
    /\ store = InitialStore
    /\ provider = [mounted |-> FALSE, id |-> 0, timer |-> FALSE]
    /\ callCount = 0
    /\ probe = NewHook

NextClient ==
    \/ PredictStart
    \/ PredictSettle
    \/ HookReset

SpecClient == InitClient /\ [][NextClient]_vars


\* the number of entries of a list view: of the static generator's array, of
\* predictions.map(...), of the four-entry allocationData, or of the
\* scenarios pushed one per prediction
Entries(v, s) ==
    CASE v.gen = "empty"  -> 0
      [] v.gen = "static" -> Len(StaticData(v.fn, s))
      [] v.gen = "derived" /\ v.fn = "alloc" -> Len(getCurrentAllocation)
      [] v.gen = "derived" /\ v.fn # "alloc" -> Len(v.from)


----------------------------------------------------------------------------
(* getAIOptimizationScenarios called directly, each of its three requests  *)
(* settling on its own.  The service rejects the requests of the presets   *)
(* in failing.presets and answers those in failing.badPresets with a       *)
(* malformed body.                                                         *)

ScenarioSettles(r) ==
    /\ tasks[r]["scen"].st = "awaiting"
    /\ \E s \in {ScenariosSettle(cache, callCount, r, tasks[r]["scen"],
                                   failing, now)} :
          /\ tasks' = [tasks EXCEPT ![r]["scen"] = s.task]
          /\ cache' = s.cache
          /\ callCount' = s.callCount
    /\ UNCHANGED <<config, now, failing, seed, runs, store, provider, probe>>

PresetFailures ==
    {[NoFailures EXCEPT !.presets = S, !.badPresets = B, !.body = b] :
        S \in SUBSET Presets, B \in SUBSET Presets, b \in Bodies}

InitPresets ==
    Start({c \in Configs : Live(c) /\ ~c.AUTO_REFRESH_ENABLED /\ c.CACHE_TTL = 1},
          PresetFailures, {0})

NextPresets ==
    \/ CallTransformer("scen")
    \/ \E r \in RunIds : ScenarioSettles(r)
    \/ ClearCache

SpecPresets == InitPresets /\ [][NextPresets]_vars

----------------------------------------------------------------------------
(* Properties.                                                             *)

\* a load cycle of the mounted instance has ended and nothing is loading
CycleEnded == provider.mounted /\ ~store.isLoading

\* the service rejects every request of a live configuration
EveryCallThrows == Live(config) /\ failing = AllFailing

\* run r ends in this step, publishing to the mounted instance
Publishes(r) ==
    /\ Resumable(r)
    /\ provider.mounted
    /\ provider.id = runs[r].mount
    /\ runs'[r].st = "settled"

\* C1: when the Remote Prediction Client throws on every call, a load cycle
\* ends with error non-null (the store is Degraded).
C1_EveryCallThrowsEndsDegraded ==
    (EveryCallThrows /\ CycleEnded) => store.error # NoError

\* C2: when the Remote Prediction Client throws on every call, every view a
\* cycle publishes is the value the store held before or the output of the
\* static generator.
C2_EveryCallThrowsPriorOrStatic ==
    [][\A r \in RunIds :
          (EveryCallThrows /\ Publishes(r))
              => \A fn \in Fns : \/ ViewOf(store', fn) = ViewOf(store, fn)
                                 \/ ViewOf(store', fn).gen = "static"]_vars

\* C3: whatever requests fail, every load cycle settles, given that every
\* request settles, and the step that ends it leaves isLoading false.
C3_CycleSettles ==
    /\ \A r \in RunIds :
          Loading(r) ~> (runs[r].kind = "load" /\ runs[r].st = "settled")
    /\ [][\A r \in RunIds : Publishes(r) => ~store'.isLoading]_vars

C3_Witness ==
    /\ failing \notin {NoFailures, AllFailing}
    /\ CycleEnded
    /\ \E r \in RunIds : /\ runs[r].kind = "load"
                         /\ runs[r].st = "settled"
                         /\ runs[r].refresh
                         /\ runs[r].mount = provider.id

\* C4: a get of an entry set t units earlier, with no set or clear in
\* between, returns the stored value if and only if t < CACHE_TTL.
C4_ReturnsIffYoungerThanTTL ==
    (probe.op = "get" /\ probe.had /\ probe.age >= 0)
        => /\ probe.hit <=> probe.age < config.CACHE_TTL
           /\ probe.hit => probe.data = probe.stored

\* C5: once a get has found the entry of a key expired, the entry is gone
\* and every get of the key returns absent until the key is set again,
\* wherever the clock is set.
C5_ExpiredStaysAbsent ==
    /\ \A key \in probe.seen : key \notin DOMAIN cache
    /\ (probe.op = "get" /\ probe.key \in probe.seen) => ~probe.hit

C5_Witness ==
    /\ probe.op = "get"
    /\ probe.key \in probe.seen
    /\ ~probe.had
    /\ ~probe.hit
    /\ now = 0
    /\ config.CACHE_TTL > 0

\* the calls of getAIPredictions made directly
PredsCalls == {r \in RunIds : runs[r].kind = "call" /\ runs[r].fn = "preds"}

\* C6: getAIPredictions(count) never rejects, and resolves with exactly
\* count results, whichever requests fail.
C6_ResolvesWithCountResults ==
    \A r \in PredsCalls :
        /\ tasks[r]["preds"].st \in {"awaiting", "done"}
        /\ tasks[r]["preds"].st = "done"
              => Len(tasks[r]["preds"].ret) = runs[r].count

C6_Witness ==
    \E r \in PredsCalls :
        /\ tasks[r]["preds"].st = "done"
        /\ runs[r].count > batchSize
        /\ runs[r].count % batchSize # 0
        /\ failing.days = 0..(runs[r].count - 1)

\* the result the .catch handler may return: class 1 'Balanced', biomass in
\* [25, 35), biofuel in [85, 105), feed in [50, 65), compost in [30, 40)
IsFallback(x) ==
    /\ x.src = "fallback"
    /\ x.optimal_allocation = 1
    /\ x.allocation_description = "Balanced"
    /\ 25000 <= x.biomass /\ x.biomass < 35000
    /\ 85000 <= x.prices.biofuel /\ x.prices.biofuel < 105000
    /\ 50000 <= x.prices.feed /\ x.prices.feed < 65000
    /\ 30000 <= x.prices.compost /\ x.prices.compost < 40000

\* C7: position i of the result holds the service's result for day offset i
\* if that request succeeded and a fallback result if it failed, in whatever
\* order the requests settled.
C7_PositionalResults ==
    \A r \in PredsCalls :
        tasks[r]["preds"].st = "done"
            => \A i \in DOMAIN tasks[r]["preds"].ret :
                  IF (i - 1) \in failing.days
                  THEN IsFallback(tasks[r]["preds"].ret[i])
                  ELSE tasks[r]["preds"].ret[i] = LiveResult(i - 1)

C7_Witness ==
    \E r \in PredsCalls :
        /\ tasks[r]["preds"].st = "done"
        /\ runs[r].count > batchSize
        /\ 1 \in failing.days
        /\ 0 \notin failing.days
        /\ Len(tasks[r]["preds"].settled) = runs[r].count
        /\ tasks[r]["preds"].settled[1] > tasks[r]["preds"].settled[2]

\* C8: the requests of a call in flight belong to one batch of at most
\* batchSize, and every request of the batches before it has settled, its
\* result pushed to results.
C8_BatchesInSequence ==
    \A r \in PredsCalls :
        tasks[r]["preds"].st = "awaiting"
            => /\ Cardinality(tasks[r]["preds"].pending) <= batchSize
               /\ \A d \in tasks[r]["preds"].pending :
                     /\ tasks[r]["preds"].i <= d
                     /\ d < tasks[r]["preds"].i + batchSize
               /\ Len(tasks[r]["preds"].results) = tasks[r]["preds"].i
               /\ Len(tasks[r]["preds"].settled) + Cardinality(tasks[r]["preds"].pending)
                     = Min(tasks[r]["preds"].i + batchSize, runs[r].count)

C8_Witness ==
    \E r \in PredsCalls :
        /\ tasks[r]["preds"].st = "awaiting"
        /\ tasks[r]["preds"].i = batchSize
        /\ tasks[r]["preds"].pending # {}

\* C9: with live predictions disabled or no endpoint configured,
\* getPrediction is never called.
C9_MockModeCallsNothing ==
    ~Live(config) => callCount = 0

C9_Witness ==
    /\ config.USE_REAL_API
    /\ ~config.API_AVAILABLE
    /\ CycleEnded
    /\ \A fn \in Fns : ViewOf(store, fn).gen = "static"
    /\ \E r \in RunIds : /\ runs[r].kind = "load"
                         /\ runs[r].st = "settled"
                         /\ runs[r].refresh

\* a transformer is called directly in this step, as run r
Calls(r, fn) ==
    /\ runs[r].kind = "none"
    /\ runs'[r].kind = "call"
    /\ runs'[r].fn = fn

\* the cache holds a value for the transformer's key, set less than
\* CACHE_TTL ago
WithinTTL(fn) ==
    /\ ViewKey(fn) \in DOMAIN cache
    /\ now - cache[ViewKey(fn)].timestamp < config.CACHE_TTL

\* C10: a transformer called when the cache holds the value an earlier call
\* stored less than CACHE_TTL ago issues no request and returns that value.
C10_SecondCallHitsCache ==
    [][\A r \in RunIds, fn \in Fns :
          (WithinTTL(fn) /\ Calls(r, fn))
              => /\ callCount' = callCount
                 /\ tasks'[r][fn] = Done(cache[ViewKey(fn)].data)]_vars

C10_Witness ==
    /\ Live(config)
    /\ failing = NoFailures
    /\ \E r \in RunIds, q \in RunIds, fn \in Fns \ {"scen"} :
          /\ r < q
          /\ runs[r].kind = "call" /\ runs[r].fn = fn
          /\ runs[q].kind = "call" /\ runs[q].fn = fn
          /\ tasks[r][fn].st = "done"
          /\ tasks[q][fn] = tasks[r][fn]
          /\ tasks[q][fn].ret.gen = "derived"
          /\ callCount = Count(fn)

\* the direct calls of transformer fn
TransformerCalls(fn) == {r \in RunIds : runs[r].kind = "call" /\ runs[r].fn = fn}

\* the Remote Prediction Client fails on a request transformer fn makes: the
\* request is rejected or answered with a malformed body
ClientFails(fn) ==
    IF fn = "scen"
    THEN failing.presets \cup failing.badPresets # {}
    ELSE (failing.days \cup failing.badDays) \cap (0..(Count(fn) - 1)) # {}

\* C11: a transformer never rejects, and when the Remote Prediction Client
\* fails on a request of its live path (rejection or malformed response) the
\* view it returns is the static generator's output.
C11_LiveFailureGivesStatic ==
    \A fn \in Fns : \A r \in TransformerCalls(fn) :
        /\ tasks[r][fn].st # "rejected"
        /\ (Live(config) /\ ClientFails(fn) /\ tasks[r][fn].st = "done")
              => tasks[r][fn].ret.gen = "static"

\* a view or lastUpdated differs between the store before and after the step
ViewsChange ==
    \/ \E fn \in Fns : ViewOf(store', fn) # ViewOf(store, fn)
    \/ store'.lastUpdated # store.lastUpdated

\* the load cycles that have published to the store or given up
SettledCycles == {r \in RunIds : runs[r].kind = "load" /\ runs[r].st = "settled"}

\* C12: the views and lastUpdated change only together: a step that changes
\* any of them either starts a new store (all five views empty) or is the
\* publish of one load cycle, after which all five views are the ones that
\* cycle's transformers returned and lastUpdated is the time of the publish.
C12_PublishesTogether ==
    [][ViewsChange
          => \/ store' = LoadingStore(InitialStore)
             \/ \E r \in RunIds :
                   /\ Publishes(r)
                   /\ \A fn \in Fns : ViewOf(store', fn) = tasks[r][fn].ret
                   /\ store'.lastUpdated = now]_vars

C12_Witness ==
    /\ CycleEnded
    /\ SettledCycles = RunIds
    /\ \A r \in RunIds : runs[r].mount = provider.id
    /\ \A fn \in Fns : ViewOf(store, fn).run = MaxRuns
    /\ store.lastUpdated = MaxTime - 1

\* two load cycles of one provider instance are awaiting at the same time
Overlap(r, q) ==
    /\ r < q
    /\ Loading(r)
    /\ Loading(q)
    /\ runs[r].mount = runs[q].mount

\* a load cycle other than r starts in this step
StartsBeside(r) ==
    \E q \in RunIds \ {r} : runs[q].kind = "none" /\ runs'[q].kind = "load"

\* C13: of two overlapping load cycles neither is cancelled by the other
\* (a cycle stops loading only by its own continuation, and the start of
\* another cycle leaves its calls as they were), both settle, and each
\* publish overwrites the five views and lastUpdated with its own cycle's,
\* whichever cycle started last.
C13_LastWriteWins ==
    /\ \A r \in RunIds, q \in RunIds :
          Overlap(r, q) ~> ({r, q} \subseteq SettledCycles)
    /\ [][\A r \in RunIds :
            Loading(r) => /\ ~Loading(r)' => Resumable(r)
                          /\ StartsBeside(r) => tasks'[r] = tasks[r]]_vars
    /\ [][\A r \in RunIds :
            Publishes(r)
              => /\ \A fn \in Fns : ViewOf(store', fn) = tasks[r][fn].ret
                 /\ store'.lastUpdated = now]_vars

C13_Witness ==
    /\ CycleEnded
    /\ provider.id = 1
    /\ SettledCycles = RunIds
    /\ \A r \in RunIds \ {1} : runs[r].refresh
    /\ \A fn \in Fns : ViewOf(store, fn).run = 1

\* load cycle r of the mounted instance ends in this step, its aggregate
\* load rejected
Fails(r) == Publishes(r) /\ AllRejected(r)

\* a refresh cycle of the mounted instance starts in this step
RefreshStarts ==
    \E r \in RunIds : /\ runs[r].kind = "none"
                      /\ runs'[r].kind = "load"
                      /\ runs'[r].refresh

\* C14: a cycle whose aggregate load rejects sets error to a message and
\* leaves the five views and lastUpdated as they were: neither the step that
\* starts a refresh cycle nor the catch block changes them.
C14_RejectKeepsViews ==
    [][/\ RefreshStarts => ~ViewsChange
       /\ \A r \in RunIds :
             Fails(r) => /\ store'.error # NoError
                         /\ ~store'.isLoading
                         /\ ~ViewsChange]_vars

C14_Witness ==
    /\ CycleEnded
    /\ store.error # NoError
    /\ SettledCycles = RunIds
    /\ store.lastUpdated # NoDate
    /\ now > store.lastUpdated
    /\ \A fn \in Fns : ViewOf(store, fn).gen = "derived"

\* run r starts in this step as a refresh cycle
RefreshStartsAs(r) ==
    /\ runs[r].kind = "none"
    /\ runs'[r].kind = "load"
    /\ runs'[r].refresh

\* the requests of one load cycle from an empty cache when none fails: the
\* two forecasts, the allocation, the KPI summary and the three presets
CycleRequests == 2 * ForecastDays + AllocationCount + KpiCount + PresetCount

\* C15: every transformer call of a refresh runs on a cache emptied by that
\* refresh: right after the refresh has called the transformers the cache
\* holds only views built by this refresh, a call that has returned
\* returned such a view, and with live predictions every call is awaiting
\* requests issued in this step; whatever a refresh cycle's transformers
\* return later is built by that cycle.
C15_RefreshBypassesCache ==
    /\ [][\A r \in RunIds :
            RefreshStartsAs(r)
              => /\ \A fn \in Fns :
                       tasks'[r][fn].st = "done" => tasks'[r][fn].ret.run = r
                 /\ DOMAIN cache' \subseteq {ViewKey(fn) : fn \in Fns}
                 /\ \A k \in DOMAIN cache' : cache'[k].data.run = r
                 /\ Live(config)
                       => /\ \A fn \in Fns : tasks'[r][fn].st = "awaiting"
                          /\ callCount' > callCount]_vars
    /\ [](\A r \in RunIds, fn \in Fns :
            (Loading(r) /\ runs[r].refresh /\ tasks[r][fn].st = "done")
                => tasks[r][fn].ret.run = r)

C15_Witness ==
    /\ Live(config)
    /\ failing = NoFailures
    /\ provider.mounted
    /\ 1 \in SettledCycles
    /\ \E r \in RunIds : /\ Loading(r)
                         /\ runs[r].refresh
                         /\ \A fn \in Fns : tasks[r][fn].st = "awaiting"
    /\ store.lastUpdated = now
    /\ callCount > CycleRequests

\* the provider is constructed in this step
Constructs == ~provider.mounted /\ provider'.mounted

\* the runs that start in this step
Started == {r \in RunIds : runs[r].kind = "none" /\ runs'[r].kind # "none"}

\* the initial loads of provider instance m
InitialLoads(m) ==
    {r \in RunIds : runs[r].kind = "load" /\ ~runs[r].refresh /\ runs[r].mount = m}

\* C16: the step that constructs the provider leaves the five views empty,
\* isLoading true, error null and lastUpdated null, and starts one load
\* cycle, not a refresh; that cycle keeps the entries the cache holds and is
\* served the views cached less than CACHE_TTL ago.  No instance has a
\* second initial load.
C16_ConstructionLoadsOnce ==
    /\ [][Constructs
            => /\ \A fn \in Fns : ViewOf(store', fn).gen \in {"empty", "null"}
               /\ store'.isLoading
               /\ store'.error = NoError
               /\ store'.lastUpdated = NoDate
               /\ Cardinality(Started) = 1
               /\ \A r \in Started :
                     /\ runs'[r].kind = "load"
                     /\ ~runs'[r].refresh
                     /\ runs'[r].mount = provider'.id
                     /\ \A fn \in Fns :
                           WithinTTL(fn)
                             => /\ tasks'[r][fn] = Done(cache[ViewKey(fn)].data)
                                /\ cache'[ViewKey(fn)] = cache[ViewKey(fn)]]_vars
    /\ [](\A m \in 1..MaxMounts : Cardinality(InitialLoads(m)) <= 1)

C16_Witness ==
    /\ provider.mounted
    /\ provider.id = MaxMounts
    /\ store = InitialStore
    /\ 1 \in SettledCycles
    /\ \E r \in InitialLoads(MaxMounts) :
          /\ Loading(r)
          /\ \A fn \in Fns : /\ tasks[r][fn].st = "done"
                              /\ tasks[r][fn].ret.run = 1

\* the refresh button or the retry button can be clicked
ButtonEnabled == provider.mounted /\ (~store.isLoading \/ store.error # NoError)

\* C17: the interval exists only while AUTO_REFRESH_ENABLED is set and the
\* provider is mounted; a refresh that starts while there is no interval is a
\* click of an enabled button, and no refresh starts once the provider is
\* torn down.
C17_TimerOnlyWhileEnabledAndMounted ==
    /\ [](provider.timer => (config.AUTO_REFRESH_ENABLED /\ provider.mounted))
    /\ [][(RefreshStarts /\ ~provider.timer) => ButtonEnabled]_vars
    /\ [][~provider.mounted => ~RefreshStarts]_vars

C17_Witness ==
    /\ config.AUTO_REFRESH_ENABLED
    /\ ~provider.mounted
    /\ ~provider.timer
    /\ SettledCycles = RunIds
    /\ \A r \in RunIds : runs[r].mount = 1 /\ (runs[r].refresh <=> r > 1)
    /\ store.lastUpdated # NoDate
    /\ \A fn \in Fns : ViewOf(store, fn).run = 1

\* every field of input x lies within [min, max] of its rule
InRange(x) ==
    \A f \in Fields : /\ validationRules[f].min <= x[f]
                      /\ x[f] <= validationRules[f].max

\* C18: every PredictionInput createInputScenario produces for a call the
\* program makes has every field within the field's [min, max] of
\* validationRules.
C18_ScenarioInRange ==
    probe.op = "createInputScenario" => InRange(probe.out)

\* the fields of input x whose value is below min or above max
OutOfRange(x) ==
    {f \in Fields : x[f] < validationRules[f].min \/ validationRules[f].max < x[f]}

\* C19: handleSubmit calls onSubmit, issuing a request, only for a form with
\* every field in range, and the errors it sets are exactly the fields
\* whose value is below min or above max.
C19_OutOfRangeNeverSubmitted ==
    [][(probe'.op = "submit" /\ (probe' # probe \/ callCount' # callCount))
          => /\ probe'.errors = OutOfRange(probe.formData)
             /\ probe'.called <=> OutOfRange(probe.formData) = {}
             /\ callCount' # callCount <=> OutOfRange(probe.formData) = {}]_vars

C19_Witness ==
    /\ probe.op = "submit"
    /\ ~probe.called
    /\ callCount = 1
    /\ probe.base \in PresetKeys
    /\ probe.errors # {}
    /\ \A f \in probe.errors :
          probe.formData[f] = validationRules[f].max + 10

\* the number of requests each transformer is declared to issue
Declared ==
    [yield |-> ForecastDays, price |-> ForecastDays, alloc |-> AllocationCount,
     kpi |-> KpiCount, scen |-> PresetCount]

\* transformer fn has been called once, on the empty cache the module
\* starts with, and nothing else has been called
OnlyCall(fn) ==
    /\ 1 \in TransformerCalls(fn)
    /\ \A r \in RunIds \ {1} : runs[r].kind = "none"

ReturnedViews ==
    {tasks[p[1]][p[2]].ret :
        p \in {q \in RunIds \X Fns : tasks[q[1]][q[2]].st = "done"}}
        \cup {cache[k].data : k \in (DOMAIN cache) \cap {ViewKey(fn) : fn \in Fns}}

\* C21: with live predictions disabled every view returned is the static
\* generator's, the allocation breakdown has 5 categories whose percentages
\* sum to 100, and the yield and price forecasts have 30 entries each.
C21_StaticShape ==
    ~Live(config)
        => \A v \in ReturnedViews :
              /\ v.gen = "static"
              /\ v.fn = "alloc"
                    => /\ Len(StaticData(v.fn, seed)) = 5
                       /\ SumValues(StaticData(v.fn, seed)) = 100
              /\ v.fn \in {"yield", "price"}
                    => Len(StaticData(v.fn, seed)) = HorizonDays

\* getPrediction has settled for a request on which fetch did `kind`
SettledOn(kind) == probe.op = "settle" /\ probe.outcome.kind = kind

\* C22: a getPrediction that fails rejects with an APIError whose statusCode
\* tells the cases apart: 0 when the endpoint is unreachable, the HTTP status
\* (never 0) when the server answers with an error, 503 when the model is not
\* loaded; and the hook reports each with its own message.  Only a response
\* with an ok status resolves.
C22_FailuresDistinguished ==
    /\ SettledOn("networkError")
          => /\ probe.settled.st = "rejected"
             /\ probe.settled.name = "APIError"
             /\ probe.settled.statusCode = StatusUnreachable
             /\ probe.error = "Cannot connect to API server"
    /\ (SettledOn("response") /\ ~Ok(probe.outcome.status))
          => /\ probe.settled.st = "rejected"
             /\ probe.settled.name = "APIError"
             /\ probe.settled.statusCode = probe.outcome.status
             /\ probe.settled.statusCode # StatusUnreachable
             /\ probe.error # "Cannot connect to API server"
             /\ probe.outcome.status = StatusNotLoaded
                   <=> probe.error = "AI models are not loaded"
    /\ (probe.op = "settle" /\ probe.settled.st = "resolved")
          => /\ probe.outcome.kind = "response"
             /\ Ok(probe.outcome.status)

C22_Witness ==
    /\ SettledOn("response")
    /\ probe.outcome.status = StatusNotLoaded
    /\ probe.settled.statusCode = StatusNotLoaded
    /\ probe.error = "AI models are not loaded"
    /\ probe.threw
    /\ probe.result = LiveResult(0)
    /\ callCount = MaxSubmits

\* C23: a response that fails shape validation is treated as an error: no
\* view a transformer returns or caches is derived from a malformed body.
C23_MalformedNeverReachesView ==
    \A v \in ReturnedViews :
        v.gen = "derived"
            => \A i \in DOMAIN v.from : v.from[i].src # "malformed"

\* the requests in flight for load cycle r
CycleInFlight(r) == SumOver(Fns, [fn \in Fns |-> InFlight(r, fn)])

\* C24: while the five transformers of a load cycle run concurrently in live
\* mode, the getPrediction requests in flight never exceed the batch size.
C24_InFlightAtMostBatch ==
    Live(config)
        => \A r \in RunIds : Loading(r) => CycleInFlight(r) <= batchSize

\* the load cycles of the mounted provider instance that have not settled
CyclesInFlight ==
    {r \in RunIds : Loading(r) /\ provider.mounted /\ runs[r].mount = provider.id}

\* C25: isLoading is true in every state in which a load cycle of the
\* mounted provider is still in flight, overlapping cycles included.
C25_LoadingWhileInFlight ==
    CyclesInFlight # {} => store.isLoading

\* C26: the 30-scenario prediction set is fetched once per load cycle: the
\* two forecasts of one cycle never both have requests for it in flight, and
\* when both are derived they are derived from the same results.
C26_ForecastSetFetchedOnce ==
    \A r \in RunIds :
        Loading(r)
            => /\ ~(InFlight(r, "yield") > 0 /\ InFlight(r, "price") > 0)
               /\ (/\ tasks[r]["yield"].st = "done"
                   /\ tasks[r]["price"].st = "done"
                   /\ tasks[r]["yield"].ret.gen = "derived"
                   /\ tasks[r]["price"].ret.gen = "derived")
                     => tasks[r]["yield"].ret.from = tasks[r]["price"].ret.from

\* every view key has an entry in the cache that a get would still return
NoEntryExpired ==
    \A fn \in Fns :
        /\ ViewKey(fn) \in DOMAIN cache
        /\ ~Expired(now - cache[ViewKey(fn)].timestamp, config.CACHE_TTL)

\* C27: when no load cycle is in flight and no cache entry has expired, each
\* view published in the store is the value the cache holds under the
\* view's key.
C27_StoreMatchesCache ==
    (/\ provider.mounted
     /\ \A r \in RunIds : ~Loading(r)
     /\ NoEntryExpired)
        => \A fn \in Fns : ViewOf(store, fn) = cache[ViewKey(fn)].data

\* the store holds a value for every view: the four lists are not empty and
\* kpiSummary is not null
AllPopulated ==
    /\ store.kpiSummary.gen # "null"
    /\ \A fn \in Fns \ {"kpi"} : Entries(ViewOf(store, fn), seed) > 0

C29_StartKeepsViews ==
    /\ [][RefreshStarts
            => store' = [store EXCEPT !.isLoading = TRUE, !.error = NoError]]_vars
    /\ [][ViewsChange
            => \/ Constructs
               \/ \E r \in RunIds : Publishes(r) /\ ~AllRejected(r)]_vars

C29_Witness ==
    /\ ~config.AUTO_REFRESH_ENABLED
    /\ provider.mounted
    /\ 1 \in SettledCycles
    /\ \E r \in RunIds : /\ Loading(r)
                         /\ runs[r].refresh
                         /\ \A fn \in Fns : tasks[r][fn].st = "awaiting"
    /\ store.isLoading
    /\ store.error = NoError
    /\ store.lastUpdated # NoDate
    /\ now > store.lastUpdated
    /\ \A fn \in Fns : ViewOf(store, fn).run = 1

\* the presets whose request fails: rejected, or answered with a body whose
\* fields cannot be read
FailingPresets == failing.presets \cup failing.badPresets

\* the first request of the set that fails
FirstFailing == CHOOSE p \in FailingPresets : \A q \in FailingPresets : p <= q

\* C30: getAIOptimizationScenarios issues its three requests one after
\* another, each only when every earlier one has succeeded; if one fails no
\* later request is issued and the view is the static scenario set; a
\* derived view is built from the three live results, never from a mix.
C30_ScenariosAllOrNothing ==
    \A r \in TransformerCalls("scen") :
        LET task == tasks[r]["scen"] IN
        /\ task.st # "rejected"
        /\ task.st = "awaiting"
              => /\ InFlight(r, "scen") = 1
                 /\ Len(task.preds) = task.step - 1
                 /\ \A p \in 1..(task.step - 1) :
                       p \notin FailingPresets /\ task.preds[p] = PresetResult(p)
                 /\ OnlyCall("scen") => callCount = task.step
        /\ task.st = "done"
              => /\ task.ret.gen \in {"static", "derived"}
                 /\ task.ret.gen = "static" <=> FailingPresets # {}
                 /\ task.ret.gen = "derived"
                       => task.ret.from = [p \in Presets |-> PresetResult(p)]
                 /\ OnlyCall("scen")
                       => callCount = IF FailingPresets = {} THEN PresetCount
                                      ELSE FirstFailing

C30_Witness ==
    /\ OnlyCall("scen")
    /\ failing.presets = {2}
    /\ failing.badPresets = {PresetCount}
    /\ tasks[1]["scen"].st = "done"
    /\ tasks[1]["scen"].ret.gen = "static"
    /\ callCount = 2
    /\ ViewKey("scen") \in DOMAIN cache

====
